---- MODULE Spec2Model ----
(***************************************************************************)
(* A model of the JMAP command-line scripts: the two PARA folder resolvers *)
(* (jmap_archive_folder.find_folder_in_para, one level deep, and           *)
(* jmap_file_email.find_folder_in_para, depth-limited and recursive) and   *)
(* the mutation operations create_folder, move_folder_to_archive and       *)
(* file_email with the way each interprets the server's response.          *)
(*                                                                         *)
(* Conventions.  A folder id is a positive integer; None (an absent        *)
(* parentId, an unset para_parents entry) is the id 0.  A folder list is a *)
(* sequence of records [id, name, parentId] in the order get_mailboxes     *)
(* returns them.  The ids of a list are distinct (the server assigns       *)
(* them); names and parentIds are arbitrary, so a list may hold            *)
(* duplicate names, orphans and parentId cycles.                           *)
(***************************************************************************)
EXTENDS Integers, Sequences, FiniteSets, TLC

\* ------------------------------------------------------------------ bounds

\* The longest folder list enumerated exhaustively.
MaxFolders == 3

\* The most fragments a JMAP_HOST value is put together from.
MaxParts == 3

\* The largest finite --max-depth enumerated (0 is enumerated too).
MaxDepth == 3

\* ------------------------------------------------------------- folder lists

None == 0

\* The keys in the opposite order.
PARA_Reversed == <<"300_resources", "200_areas", "100_projects">>

\* The keys of para_parents, in the insertion order of the dict literal.
PARA == <<"100_projects", "200_areas", "300_resources">>

ParaNames == {PARA[k] : k \in 1..Len(PARA)}

\* Folder names of the exhaustively enumerated lists.  SomeNames is the
\* alphabet of the longest lists (up to MaxFolders folders): two PARA names
\* and one other; lists over all of Names have up to MaxFolders - 1 folders.
Names == ParaNames \cup {"A", "B"}

SomeNames == {"100_projects", "200_areas", "A"}

Mailbox(i, nm, p) == [id |-> i, name |-> nm, parentId |-> p]

\* The folder list of n folders with names nm[i] and parentIds par[i]:
\* folder i has id i.
ListOf(n, nm, par) == [i \in 1..n |-> Mailbox(i, nm[i], par[i])]

\* mbs is a list of up to max folders over the names S, with any parentId
\* among None and the ids of the list.
IsListOver(mbs, max, S) ==
    \E n \in 0..max :
        \E nm \in [1..n -> S], par \in [1..n -> 0..n] : mbs = ListOf(n, nm, par)

\* mbs is a PARA forest of up to max folders: every folder is listed after
\* its parent, a root-level folder carries a PARA name and any other folder
\* the name A or B.
IsForest(mbs, max) ==
    \E n \in 1..max :
        \E par \in [1..n -> 0..(n - 1)], nm \in [1..n -> Names] :
            /\ \A i \in 1..n : par[i] < i
            /\ \A i \in 1..n : (par[i] = None) = (nm[i] \in ParaNames)
            /\ mbs = ListOf(n, nm, par)

\* The folder lists of the test suite, ids renumbered by position.
SampleMailboxes ==
    << Mailbox(1, "Inbox", None),
       Mailbox(2, "Sent Items", None),
       Mailbox(3, "100_projects", None),
       Mailbox(4, "2025-Q1_website-redesign", 3),
       Mailbox(5, "200_areas", None),
       Mailbox(6, "Team Management", 5),
       Mailbox(7, "300_resources", None),
       Mailbox(8, "400_archives", None) >>

NestedMailboxes ==
    << Mailbox(1, "100_projects", None),
       Mailbox(2, "Project", 1),
       Mailbox(3, "DeepFolder", 2) >>

DeepMailboxes ==
    << Mailbox(1, "100_projects", None),
       Mailbox(2, "Level1", 1),
       Mailbox(3, "Level2", 2),
       Mailbox(4, "Level3", 3) >>

\* A chain whose second folder carries a PARA name itself.
ParaChainMailboxes ==
    << Mailbox(1, "100_projects", None),
       Mailbox(2, "200_areas", 1),
       Mailbox(3, "B", 2),
       Mailbox(4, "C", 3) >>

FixtureLists ==
    {SampleMailboxes, NestedMailboxes, DeepMailboxes, ParaChainMailboxes}

\* The names a search is tried with: every name in the list and one that
\* no folder carries.
NamesOf(mbs) == {mbs[i].name : i \in 1..Len(mbs)}

SearchNames(mbs) == NamesOf(mbs) \cup {"NonExistent"}

\* --------------------------------------------------------------- results

\* What a resolver gives back: None, the folder it found with the two
\* annotations it adds, or the RecursionError Python raises when
\* search_descendants nests deeper than the interpreter allows.
NotFound == [kind |-> "None"]

RecursionError == [kind |-> "RecursionError"]

Found(mb, para_name, para_id) ==
    [kind |-> "found", id |-> mb.id, name |-> mb.name, parentId |-> mb.parentId,
     paraParent |-> para_name, paraParentId |-> para_id]

\* max_depth: None (unlimited) or an integer.
Unlimited == [limited |-> FALSE, n |-> 0]

Limited(d) == [limited |-> TRUE, n |-> d]

\* The interpreter's recursion limit, scaled to the model: on a list without
\* a parentId cycle search_descendants nests at most Len(list) frames, and a
\* finite max_depth stops it at max_depth + 1 frames, so a descent that passes
\* this limit is one that never ends by itself.
RecursionLimit == MaxFolders + MaxDepth + 6

\* ------------------------------------------------------ PARA root discovery

\* for mb in all_mailboxes: if mb['name'] in para_parents:
\*     para_parents[mb['name']] = mb['id']
\* A later folder of the same name overwrites an earlier one.
RECURSIVE ParaParentsFrom(_, _, _)
ParaParentsFrom(mbs, i, pp) ==
    IF i > Len(mbs) THEN pp
    ELSE IF mbs[i].name \in ParaNames
         THEN ParaParentsFrom(mbs, i + 1, [pp EXCEPT ![mbs[i].name] = mbs[i].id])
         ELSE ParaParentsFrom(mbs, i + 1, pp)

ParaParents(mbs) == ParaParentsFrom(mbs, 1, [nm \in ParaNames |-> None])

\* ------------------------------------- bounded-depth resolver (archive-folder)

\* A scan that forgets the parentId test: any folder of the name matches.
RECURSIVE ArchiveScanAnyFolder(_, _, _, _, _)
ArchiveScanAnyFolder(mbs, folder_name, para_name, para_id, i) ==
    IF i > Len(mbs) THEN NotFound
    ELSE IF mbs[i].name = folder_name
         THEN Found(mbs[i], para_name, para_id)
         ELSE ArchiveScanAnyFolder(mbs, folder_name, para_name, para_id, i + 1)

\* for mb in all_mailboxes:
\*     if mb.get('parentId') == para_id and mb['name'] == folder_name: return mb
RECURSIVE ArchiveScanChildren(_, _, _, _, _)
ArchiveScanChildren(mbs, folder_name, para_name, para_id, i) ==
    IF i > Len(mbs) THEN NotFound
    ELSE IF mbs[i].parentId = para_id /\ mbs[i].name = folder_name
         THEN Found(mbs[i], para_name, para_id)
         ELSE ArchiveScanChildren(mbs, folder_name, para_name, para_id, i + 1)

\* for para_name, para_id in para_parents.items(): skip an unset root,
\* scan the children of the others, return the first match.
RECURSIVE ArchiveScanParas(_, _, _, _)
ArchiveScanParas(mbs, folder_name, pp, k) ==
    IF k > Len(PARA) THEN NotFound
    ELSE IF pp[PARA[k]] = None
         THEN ArchiveScanParas(mbs, folder_name, pp, k + 1)
         ELSE LET r == ArchiveScanChildren(mbs, folder_name, PARA[k], pp[PARA[k]], 1)
              IN  IF r.kind = "None"
                  THEN ArchiveScanParas(mbs, folder_name, pp, k + 1)
                  ELSE r

\* A resolver that takes the first folder of the name wherever it lies.
ArchiveFindAnywhere(mbs, folder_name) ==
    ArchiveScanAnyFolder(mbs, folder_name, "100_projects",
                         ParaParents(mbs)["100_projects"], 1)

ArchiveFind(mbs, folder_name) ==
    ArchiveScanParas(mbs, folder_name, ParaParents(mbs), 1)

\* ------------------------------------- depth-limited resolver (file-email)

\* A depth check that is off by one: the children of a PARA root count as
\* past max_depth = 1.
PastDepthOffByOne(max_depth, current_depth) ==
    max_depth.limited /\ current_depth >= max_depth.n

\* The depth check at the head of search_descendants.
PastDepth(max_depth, current_depth) ==
    max_depth.limited /\ current_depth > max_depth.n

\* search_descendants(parent_id, current_depth, para_name); cx holds what the
\* closure reads (all_mailboxes, folder_name, max_depth, para_parents) and
\* frames counts the nested calls.  SearchChildren is its for loop from
\* position i on.
RECURSIVE SearchDescendants(_, _, _, _, _)
RECURSIVE SearchChildren(_, _, _, _, _, _)
SearchDescendants(cx, parent_id, current_depth, para_name, frames) ==
    IF frames > RecursionLimit THEN RecursionError
    ELSE IF PastDepth(cx.max_depth, current_depth) THEN NotFound
    ELSE SearchChildren(cx, parent_id, current_depth, para_name, 1, frames)

SearchChildren(cx, parent_id, current_depth, para_name, i, frames) ==
    IF i > Len(cx.mbs) THEN NotFound
    ELSE IF cx.mbs[i].parentId = parent_id
         THEN IF cx.mbs[i].name = cx.folder_name
              THEN Found(cx.mbs[i], para_name, cx.pp[para_name])
              ELSE LET r == SearchDescendants(cx, cx.mbs[i].id, current_depth + 1,
                                              para_name, frames + 1)
                   IN  IF r.kind = "None"
                       THEN SearchChildren(cx, parent_id, current_depth, para_name,
                                           i + 1, frames)
                       ELSE r
         ELSE SearchChildren(cx, parent_id, current_depth, para_name, i + 1, frames)

\* for para_name, para_id in para_parents.items(): skip an unset root,
\* search_descendants(para_id, 1, para_name), return the first result.
RECURSIVE FileScanParas(_, _)
FileScanParas(cx, k) ==
    IF k > Len(PARA) THEN NotFound
    ELSE IF cx.pp[PARA[k]] = None THEN FileScanParas(cx, k + 1)
    ELSE LET r == SearchDescendants(cx, cx.pp[PARA[k]], 1, PARA[k], 1)
         IN  IF r.kind = "None" THEN FileScanParas(cx, k + 1) ELSE r

\* A resolver that searches every level whatever max_depth is.
FileFindIgnoringDepth(mbs, folder_name, max_depth) ==
    FileScanParas([mbs |-> mbs, folder_name |-> folder_name,
                   max_depth |-> Unlimited, pp |-> ParaParents(mbs)], 1)

FileFind(mbs, folder_name, max_depth) ==
    FileScanParas([mbs |-> mbs, folder_name |-> folder_name,
                   max_depth |-> max_depth, pp |-> ParaParents(mbs)], 1)

\* ------------------------------------------------------------ credentials

\* Strings the loaders work on are sequences of characters.
Https == <<"h", "t", "t", "p", "s", ":", "/", "/">>

Http == <<"h", "t", "t", "p", ":", "/", "/">>

\* os.getenv of a variable that is not set.
Unset == <<"None">>

\* `not v` of a value read from the environment: None or the empty string.
Falsy(v) == v = Unset \/ v = <<>>

\* s.startswith(p)
StartsWith(s, p) == Len(s) >= Len(p) /\ SubSeq(s, 1, Len(p)) = p

\* p occurs in s
Contains(s, p) ==
    \E i \in 1..Len(s) : i + Len(p) - 1 <= Len(s) /\ SubSeq(s, i, i + Len(p) - 1) = p

\* s.replace(p, ''): the occurrences of p, left to right and not overlapping,
\* are removed.
RECURSIVE Remove(_, _)
Remove(s, p) ==
    IF s = <<>> THEN <<>>
    ELSE IF StartsWith(s, p) THEN Remove(SubSeq(s, Len(p) + 1, Len(s)), p)
    ELSE <<Head(s)>> \o Remove(Tail(s), p)

\* A normalisation that strips https:// only.
NormalizeHostHttpsOnly(host) == Remove(host, Https)

\* load_jmap_credentials: host.replace('https://', '').replace('http://', '')
NormalizeHost(host) == Remove(Remove(host, Https), Http)

\* load_jmap_credentials_rw (the same in create-folder, file-email and
\* archive-folder): each replace behind its startswith test.
NormalizeHostRw(host) ==
    LET h1 == IF StartsWith(host, Https) THEN Remove(host, Https) ELSE host
    IN  IF StartsWith(h1, Http) THEN Remove(h1, Http) ELSE h1

\* The environment of the tests: host and the two scoped tokens.
HostName == <<"a", ".", "b">>

TokenRO == <<"r", "o">>

TokenRW == <<"r", "w">>

TokenPlain == <<"t">>

MockEnv ==
    [JMAP_HOST |-> HostName, JMAP_API_TOKEN |-> Unset,
     JMAP_API_TOKEN_RO |-> TokenRO, JMAP_API_TOKEN_RW |-> TokenRW]

\* sys.exit(code)
Exit(code) == [kind |-> "exit", code |-> code]

\* ------------------------------------------------------------------ state

VARIABLES
    mailboxes,   \* the folder list the server holds and get_mailboxes returns
    find,        \* the resolver call: which, its arguments, its result
    connected,   \* client.client is set (connect() has succeeded)
    email,       \* the server's email: whether it exists, and its mailboxIds
    call,        \* the operation in progress, its arguments and locals
    sent,        \* the requests the operation has issued, in order
    outcome,     \* what the operation returned or raised
    env          \* the process environment: JMAP_HOST and the token variables

vars == <<mailboxes, find, connected, email, call, sent, outcome, env>>

Idle == [op |-> "idle"]

IdleCall == [op |-> "idle", pc |-> "idle"]

NoOutcome == [kind |-> "none"]

DepthArgs == {Unlimited} \cup {Limited(d) : d \in 0..MaxDepth}

\* ------------------------------------------------ the resolvers, called

InitResolve ==
    /\ \/ IsListOver(mailboxes, MaxFolders, SomeNames)
       \/ IsListOver(mailboxes, MaxFolders - 1, Names)
       \/ IsForest(mailboxes, MaxFolders + 1)
       \/ mailboxes \in FixtureLists
    /\ find = Idle
    /\ connected = TRUE
    /\ email = [exists |-> FALSE, mailboxIds |-> {}]
    /\ call = IdleCall
    /\ sent = <<>>
    /\ outcome = NoOutcome
    /\ env = MockEnv

\* archive-folder: find_folder_in_para(client, folder_name)
ArchiveFindFolder ==
    /\ find.op = "idle"
    /\ \E nm \in SearchNames(mailboxes) :
          find' = [op |-> "archive", folder_name |-> nm, max_depth |-> Limited(1),
                   result |-> ArchiveFind(mailboxes, nm)]
    /\ UNCHANGED <<env, mailboxes, connected, email, call, sent, outcome>>

\* file-email: find_folder_in_para(client, folder_name, max_depth)
FileFindFolder ==
    /\ find.op = "idle"
    /\ \E nm \in SearchNames(mailboxes), md \in DepthArgs :
          find' = [op |-> "file", folder_name |-> nm, max_depth |-> md,
                   result |-> FileFind(mailboxes, nm, md)]
    /\ UNCHANGED <<env, mailboxes, connected, email, call, sent, outcome>>

NextResolve == ArchiveFindFolder \/ FileFindFolder

SpecResolve == InitResolve /\ [][NextResolve]_vars

\* ------------------------------------------------ responses and outcomes

\* The server answers the operations below act on: the folder list of the
\* test suite; the email is filed among Inbox, a project and an area.
ServerMailboxes == SampleMailboxes

FilingIds == {1, 4, 6}

MovableIds == {3, 4, 5, 6, 8}

ArchiveIds == {3, 8}

CreateParentIds == {3, 5, 7}

CreateNames == {"A", "Project", "inbox"}

\* The email the calls name, and another one a response may mention.
EmailId == "email_123"

OtherEmailId == "email_456"

\* The server's error details of a notUpdated / notCreated entry.
Details == {"forbidden", "notFound"}

\* error_info = result.not_updated.get(id, {}): the default of a missing entry.
EmptyDetail == "{}"

\* Every map from some of the keys to a detail.
DetailMaps(keys) == UNION {[d -> Details] : d \in SUBSET keys}

\* A response to a /set update: request() raised, or an object whose updated
\* and not_updated may each be populated (an absent or None attribute reads
\* like an empty one in `hasattr(result, a) and result.a`).
TransportError ==
    [raises |-> TRUE, updated |-> {}, not_updated |-> [k \in {} |-> "forbidden"]]

UpdateResponses(keys) ==
    {[raises |-> FALSE, updated |-> u, not_updated |-> n] :
        u \in SUBSET keys, n \in DetailMaps(keys)} \cup {TransportError}

\* A response to a /set create: created maps creation ids to the new
\* folder's id, not_created maps them to details.
CreateKey == "new-folder"

OtherKey == "k2"

CreateTransportError ==
    [raises |-> TRUE, created |-> [k \in {} |-> 0],
     not_created |-> [k \in {} |-> "forbidden"]]

CreateResponses(newId) ==
    {[raises |-> FALSE, created |-> [k \in c |-> newId], not_created |-> n] :
        c \in SUBSET {CreateKey, OtherKey}, n \in DetailMaps({CreateKey, OtherKey})}
    \cup {CreateTransportError}

\* What a call gives back.  A raise has the exception's type and its message
\* as the list of its parts, the wrapper's prefix first.
Returned(v) == [kind |-> "return", value |-> v]

Raised(type, msg, detail) ==
    [kind |-> "raise", type |-> type, msg |-> msg, detail |-> detail]

\* raise ValueError("Client not connected. Call connect() first.")
NotConnected == Raised("ValueError", <<"Client not connected">>, EmptyDetail)

\* except Exception as e: raise ValueError(f"<prefix>: {e}")
Wrapped(prefix, msg, detail) == Raised("ValueError", <<prefix>> \o msg, detail)

Get(map, key) == IF key \in DOMAIN map THEN map[key] ELSE EmptyDetail

\* A reading that takes any populated updated for success.
InterpretUpdateAnyUpdated(resp, id, prefix, failed, unexpected) ==
    IF resp.raises THEN Wrapped(prefix, <<"request failed">>, EmptyDetail)
    ELSE IF DOMAIN resp.not_updated # {}
         THEN Wrapped(prefix, <<failed>>, Get(resp.not_updated, id))
    ELSE IF resp.updated # {} THEN Returned(TRUE)
    ELSE Wrapped(prefix, <<unexpected>>, EmptyDetail)

\* The response handling shared by move_folder_to_archive and file_email:
\*   if result.not_updated: raise ValueError(f"Failed ...: {not_updated.get(id, {})}")
\*   if result.updated and id in result.updated: return True
\*   raise ValueError("... response did not contain expected data")
\* all inside try/except Exception, which re-raises as ValueError.
InterpretUpdate(resp, id, prefix, failed, unexpected) ==
    IF resp.raises THEN Wrapped(prefix, <<"request failed">>, EmptyDetail)
    ELSE IF DOMAIN resp.not_updated # {}
         THEN Wrapped(prefix, <<failed>>, Get(resp.not_updated, id))
    ELSE IF resp.updated # {} /\ id \in resp.updated THEN Returned(TRUE)
    ELSE Wrapped(prefix, <<unexpected>>, EmptyDetail)

InterpretMove(resp, folder_id) ==
    InterpretUpdate(resp, folder_id, "Error moving folder", "Failed to move folder",
                    "Folder move response did not contain expected data")

InterpretFile(resp, email_id) ==
    InterpretUpdate(resp, email_id, "Error filing email", "Failed to file email",
                    "Email filing response did not contain expected data")

\* A reading that tests created before not_created.
InterpretCreateCreatedFirst(resp, parent_id, folder_name) ==
    IF resp.raises
    THEN Wrapped("Error creating folder", <<"request failed">>, EmptyDetail)
    ELSE IF CreateKey \in DOMAIN resp.created
         THEN Returned([id |-> resp.created[CreateKey], name |-> folder_name,
                        parentId |-> parent_id])
    ELSE IF DOMAIN resp.not_created # {}
         THEN Wrapped("Error creating folder", <<"Failed to create folder">>,
                      Get(resp.not_created, CreateKey))
    ELSE Wrapped("Error creating folder",
                 <<"Folder creation response did not contain expected data">>,
                 EmptyDetail)

\* create_folder's response handling:
\*   if result.not_created: raise ValueError(f"Failed to create folder: {...}")
\*   if result.created and result.created.get('new-folder'): return {id, name, parentId}
\*   raise ValueError("Folder creation response did not contain expected data")
InterpretCreate(resp, parent_id, folder_name) ==
    IF resp.raises
    THEN Wrapped("Error creating folder", <<"request failed">>, EmptyDetail)
    ELSE IF DOMAIN resp.not_created # {}
         THEN Wrapped("Error creating folder", <<"Failed to create folder">>,
                      Get(resp.not_created, CreateKey))
    ELSE IF DOMAIN resp.created # {} /\ CreateKey \in DOMAIN resp.created
         THEN Returned([id |-> resp.created[CreateKey], name |-> folder_name,
                        parentId |-> parent_id])
    ELSE Wrapped("Error creating folder",
                 <<"Folder creation response did not contain expected data">>,
                 EmptyDetail)

\* The server's side of a /set: a change reported as done (and not also as
\* refused) was made, one reported only as refused was not; behind any other
\* answer it may or may not have been made.
ServerMay(applied, done, refused) ==
    /\ (done /\ ~refused) => applied
    /\ (refused /\ ~done) => ~applied

\* ------------------------------------------------------- the operations

Init ==
    /\ mailboxes = ServerMailboxes
    /\ find = Idle
    /\ connected = FALSE
    /\ email \in [exists : BOOLEAN, mailboxIds : SUBSET FilingIds]
    /\ email.exists \/ email.mailboxIds = {}
    /\ call = IdleCall
    /\ sent = <<>>
    /\ outcome = NoOutcome
    /\ env = MockEnv

\* client.connect(), succeeding.
Connect ==
    /\ call.op = "idle"
    /\ ~connected
    /\ connected' = TRUE
    /\ UNCHANGED <<env, mailboxes, find, email, call, sent, outcome>>

\* A move that keeps the memberships the server holds.
MoveIdsKeeping(target_mailbox_id) == email.mailboxIds \cup {target_mailbox_id}

\* new_mailbox_ids of a move: the target alone.
MoveIds(target_mailbox_id) == {target_mailbox_id}

\* A copy that drops what it read.
CopyIdsDropping(read_ids, target_mailbox_id) == {target_mailbox_id}

\* new_mailbox_ids of a copy: the mailboxIds read, with the target added.
CopyIds(read_ids, target_mailbox_id) == read_ids \cup {target_mailbox_id}

\* A file_email that reads the email whether it copies or moves.
FirstRequestAlwaysRead(copy) == "read"

\* if copy: get_email_info(...) first; else: straight to the Email/set.
FirstRequest(copy) == IF copy THEN "read" ELSE "write"

\* file_email(client, email_id, target_mailbox_id, copy), up to its first
\* request: the connection check, and for a move the new mailboxIds.
FileEmailBegin ==
    /\ call.op = "idle"
    /\ \E target \in FilingIds, copy \in BOOLEAN :
          LET c == [op |-> "file_email", email_id |-> EmailId, target |-> target,
                    copy |-> copy, before |-> email.mailboxIds,
                    interfered |-> FALSE, other |-> {}, new_mailbox_ids |-> {}]
          IN  IF ~connected
              THEN /\ call' = c @@ [pc |-> "done"]
                   /\ outcome' = NotConnected
              ELSE /\ call' = [c EXCEPT !.new_mailbox_ids =
                                            IF copy THEN {} ELSE MoveIds(target)]
                              @@ [pc |-> FirstRequest(copy)]
                   /\ UNCHANGED outcome
    /\ UNCHANGED <<env, mailboxes, find, connected, email, sent>>

\* get_email_info(client, email_id) inside file_email (copy only): one
\* Email/get; no data gives "Email not found", a failed request gives
\* "Error retrieving email", either re-raised by file_email's except.
FileEmailRead ==
    /\ call.op = "file_email" /\ call.pc = "read"
    /\ sent' = Append(sent, "Email/get")
    /\ \E fails \in BOOLEAN :
          IF fails
          THEN /\ outcome' = Wrapped("Error filing email",
                                     <<"Error retrieving email", "request failed">>,
                                     EmptyDetail)
               /\ call' = [call EXCEPT !.pc = "done"]
          ELSE IF ~email.exists
          THEN /\ outcome' = Wrapped("Error filing email", <<"Email not found">>,
                                     EmptyDetail)
               /\ call' = [call EXCEPT !.pc = "done"]
          ELSE /\ call' = [call EXCEPT
                              !.pc = "write",
                              !.new_mailbox_ids = CopyIds(email.mailboxIds, call.target)]
               /\ UNCHANGED outcome
    /\ UNCHANGED <<env, mailboxes, find, connected, email>>

\* Another client changes the email's mailboxIds while file_email is between
\* its requests.
OtherWriter ==
    /\ call.op = "file_email" /\ call.pc = "write"
    /\ ~call.interfered
    /\ email.exists
    /\ \E ids \in SUBSET FilingIds :
          /\ ids # email.mailboxIds
          /\ email' = [email EXCEPT !.mailboxIds = ids]
          /\ call' = [call EXCEPT !.interfered = TRUE, !.other = ids]
    /\ UNCHANGED <<env, mailboxes, find, connected, sent, outcome>>

\* An update that adds the ids sent to the ids the server holds.
SetMailboxIdsMerging(current, new_mailbox_ids) == current \cup new_mailbox_ids

\* EmailSet(update={email_id: {'mailboxIds': new_mailbox_ids}}): the property
\* is replaced as a whole by what the request carries.
SetMailboxIds(current, new_mailbox_ids) == new_mailbox_ids

\* A request repeated once when it raised.
RequestRetried(q, req, resp) ==
    IF resp.raises THEN Append(Append(q, req), req) ELSE Append(q, req)

\* result = client.client.request(...): one call, in a try whose except
\* re-raises; no loop around it.
Request(q, req, resp) == Append(q, req)

\* file_email's Email/set and the reading of its response.
FileEmailWrite ==
    /\ call.op = "file_email" /\ call.pc = "write"
    /\ \E resp \in UpdateResponses({EmailId, OtherEmailId}), applied \in BOOLEAN :
          /\ sent' = Request(sent, "Email/set", resp)
          /\ applied => email.exists
          /\ resp.raises \/ ServerMay(applied, EmailId \in resp.updated,
                                      EmailId \in DOMAIN resp.not_updated)
          /\ email' = IF applied
                      THEN [email EXCEPT !.mailboxIds =
                               SetMailboxIds(email.mailboxIds, call.new_mailbox_ids)]
                      ELSE email
          /\ call' = [call EXCEPT !.pc = "done"] @@ [resp |-> resp]
          /\ outcome' = InterpretFile(resp, call.email_id)
    /\ UNCHANGED <<env, mailboxes, find, connected>>

\* A move that also puts the folder's children under the new parent.
ReparentChildrenToo(mbs, folder_id, parent_id) ==
    [i \in 1..Len(mbs) |->
        IF mbs[i].id = folder_id \/ mbs[i].parentId = folder_id
        THEN [mbs[i] EXCEPT !.parentId = parent_id]
        ELSE mbs[i]]

\* MailboxSet(update={folder_id: {'parentId': archive_parent_id}}): the folder
\* list with folder_id's parentId replaced.
Reparent(mbs, folder_id, parent_id) ==
    [i \in 1..Len(mbs) |->
        IF mbs[i].id = folder_id THEN [mbs[i] EXCEPT !.parentId = parent_id]
        ELSE mbs[i]]

\* move_folder_to_archive(client, folder_id, archive_parent_id): the
\* connection check, one Mailbox/set update of parentId, the reading of the
\* response.
MoveFolderToArchive ==
    /\ call.op = "idle"
    /\ \E folder_id \in MovableIds, archive_parent_id \in ArchiveIds :
          LET c == [op |-> "move_folder_to_archive", pc |-> "done",
                    folder_id |-> folder_id, archive_parent_id |-> archive_parent_id]
          IN  IF ~connected
              THEN /\ call' = c
                   /\ outcome' = NotConnected
                   /\ UNCHANGED <<mailboxes, sent>>
              ELSE \E resp \in UpdateResponses({folder_id, archive_parent_id}),
                      applied \in BOOLEAN :
                      /\ resp.raises \/ ServerMay(applied, folder_id \in resp.updated,
                                                  folder_id \in DOMAIN resp.not_updated)
                      /\ sent' = Request(sent, "Mailbox/set", resp)
                      /\ mailboxes' = IF applied
                                      THEN Reparent(mailboxes, folder_id, archive_parent_id)
                                      ELSE mailboxes
                      /\ call' = c @@ [resp |-> resp]
                      /\ outcome' = InterpretMove(resp, folder_id)
    /\ UNCHANGED <<env, find, connected, email>>

\* create_folder(client, parent_id, folder_name): the connection check, one
\* Mailbox/set create, the reading of the response.
CreateFolder ==
    /\ call.op = "idle"
    /\ \E parent_id \in CreateParentIds, folder_name \in CreateNames :
          LET c == [op |-> "create_folder", pc |-> "done",
                    parent_id |-> parent_id, folder_name |-> folder_name]
              newId == Len(mailboxes) + 1
          IN  IF ~connected
              THEN /\ call' = c
                   /\ outcome' = NotConnected
                   /\ UNCHANGED <<mailboxes, sent>>
              ELSE \E resp \in CreateResponses(newId), applied \in BOOLEAN :
                      /\ resp.raises \/ ServerMay(applied, CreateKey \in DOMAIN resp.created,
                                                  CreateKey \in DOMAIN resp.not_created)
                      /\ sent' = Request(sent, "Mailbox/set", resp)
                      /\ mailboxes' = IF applied
                                      THEN Append(mailboxes,
                                                  Mailbox(newId, folder_name, parent_id))
                                      ELSE mailboxes
                      /\ call' = c @@ [resp |-> resp]
                      /\ outcome' = InterpretCreate(resp, parent_id, folder_name)
    /\ UNCHANGED <<env, find, connected, email>>


\* ------------------------------------------------------- the commands

\* str.lower() on the names and answers that occur.
Lower(s) ==
    CASE s = "Inbox" -> "inbox"
      [] s = "Sent Items" -> "sent items"
      [] s = "Team Management" -> "team management"
      [] s = "Project" -> "project"
      [] s = "INBOX" -> "inbox"
      [] s = "400_ARCHIVES" -> "400_archives"
      [] s = "100_Projects" -> "100_projects"
      [] s = "Y" -> "y"
      [] s = "YES" -> "yes"
      [] s = "Yes" -> "yes"
      [] s = "N" -> "n"
      [] OTHER -> s

\* A lookup that lowers the argument only.
LookupLowersArgument(mbs, name) ==
    IF \E i \in 1..Len(mbs) : mbs[i].name = Lower(name)
    THEN mbs[CHOOSE i \in 1..Len(mbs) :
                /\ mbs[i].name = Lower(name)
                /\ \A j \in 1..(i - 1) : mbs[j].name # Lower(name)]
    ELSE Mailbox(None, "", None)

\* get_mailbox_by_name on the list get_mailboxes returned: the first folder
\* whose lowered name is the lowered argument, or None (id None here).
Lookup(mbs, name) ==
    IF \E i \in 1..Len(mbs) : Lower(mbs[i].name) = Lower(name)
    THEN mbs[CHOOSE i \in 1..Len(mbs) :
                /\ Lower(mbs[i].name) = Lower(name)
                /\ \A j \in 1..(i - 1) : Lower(mbs[j].name) # Lower(name)]
    ELSE Mailbox(None, "", None)

\* The role of a folder (the list carries it with the name): the inbox and
\* the sent folder have one.
RoleOf(mb) ==
    CASE mb.name = "Inbox" -> "inbox"
      [] mb.name = "Sent Items" -> "sent"
      [] OTHER -> "None"

\* role_map.get(args.folder.lower()) of list-emails.
RoleMap(folder) ==
    CASE Lower(folder) = "inbox" -> "inbox"
      [] Lower(folder) = "sent" -> "sent"
      [] Lower(folder) = "sent items" -> "sent"
      [] OTHER -> "None"

\* get_mailbox_by_role on the list get_mailboxes returned.
LookupRole(mbs, role) ==
    IF \E i \in 1..Len(mbs) : RoleOf(mbs[i]) = role
    THEN mbs[CHOOSE i \in 1..Len(mbs) :
                /\ RoleOf(mbs[i]) = role
                /\ \A j \in 1..(i - 1) : RoleOf(mbs[j]) # role]
    ELSE Mailbox(None, "", None)

\* A loader that tests the host only.
LoadJmapCredentialsHostOnly(e) ==
    IF Falsy(e.JMAP_HOST) THEN Exit(1)
    ELSE Returned([host |-> NormalizeHost(e.JMAP_HOST),
                   api_token |-> e.JMAP_API_TOKEN])

\* load_jmap_credentials(): JMAP_HOST and JMAP_API_TOKEN; sys.exit(1) unless
\* both are set and not empty.
LoadJmapCredentials(e) ==
    IF Falsy(e.JMAP_HOST) \/ Falsy(e.JMAP_API_TOKEN) THEN Exit(1)
    ELSE Returned([host |-> NormalizeHost(e.JMAP_HOST),
                   api_token |-> e.JMAP_API_TOKEN])

\* load_jmap_credentials_rw(): JMAP_HOST and JMAP_API_TOKEN_RW; ValueError
\* when one is missing or empty.
LoadJmapCredentialsRw(e) ==
    IF Falsy(e.JMAP_HOST)
    THEN Raised("ValueError", <<"JMAP_HOST environment variable is required">>,
                EmptyDetail)
    ELSE IF Falsy(e.JMAP_API_TOKEN_RW)
    THEN Raised("ValueError",
                <<"JMAP_API_TOKEN_RW environment variable is required">>,
                EmptyDetail)
    ELSE Returned([host |-> NormalizeHostRw(e.JMAP_HOST),
                   api_token |-> e.JMAP_API_TOKEN_RW])

ReadOnlyCommands == {"list-folders", "list-emails", "get-email"}

MutatingCommands == {"create-folder", "file-email", "archive-folder"}

Commands == ReadOnlyCommands \cup MutatingCommands

\* The requests that change something on the server.
MutationRequests == {"Mailbox/set", "Email/set"}

\* The sample list with a second archive folder and a second projects
\* folder, each listed first and named in other letter case.
CaseMailboxes ==
    << Mailbox(1, "Inbox", None),
       Mailbox(2, "100_Projects", None),
       Mailbox(3, "200_areas", None),
       Mailbox(4, "Team Management", 3),
       Mailbox(5, "400_ARCHIVES", None),
       Mailbox(6, "400_archives", None),
       Mailbox(7, "100_projects", None) >>

\* A tree whose archive folder lies inside a project.
ArchiveInsideMailboxes ==
    << Mailbox(1, "100_projects", None),
       Mailbox(2, "Project", 1),
       Mailbox(3, "400_archives", 2) >>

\* A tree with the same folder name under two PARA roots.
TwiceMailboxes ==
    << Mailbox(1, "200_areas", None),
       Mailbox(2, "Team Management", 1),
       Mailbox(3, "300_resources", None),
       Mailbox(4, "Team Management", 3),
       Mailbox(5, "400_archives", None) >>

MainLists ==
    {SampleMailboxes, CaseMailboxes, NestedMailboxes, ArchiveInsideMailboxes,
     TwiceMailboxes}

\* The environments a command is started in.
MainEnvs ==
    [JMAP_HOST : {Unset, <<>>, Https \o HostName},
     JMAP_API_TOKEN : {Unset, TokenPlain},
     JMAP_API_TOKEN_RO : {Unset, TokenRO},
     JMAP_API_TOKEN_RW : {Unset, <<>>, TokenRW}]

\* What is typed at "Continue? [y/N]: "; EOF is input() raising EOFError.
EOF == "EOF"

Answers == {"y", "YES", "Yes", "n", "", "yes ", EOF}

\* The command lines: every command with the arguments that steer it.
NoArgs ==
    [yes |-> FALSE, dry_run |-> FALSE, answer |-> "", copy |-> FALSE,
     folder_name |-> "", parent |-> "", name |-> "", max_depth |-> Unlimited]

FileTargets ==
    {<<"Team Management", Unlimited>>, <<"DeepFolder", Unlimited>>,
     <<"DeepFolder", Limited(1)>>, <<"NonExistent", Unlimited>>}

CommandLines ==
    {[cmd |-> "list-folders"] @@ NoArgs, [cmd |-> "get-email"] @@ NoArgs}
    \cup {[cmd |-> "list-emails", folder_name |-> f] @@ NoArgs :
            f \in {"Inbox", "sent", "NonExistent"}}
    \cup {[cmd |-> "create-folder", parent |-> p, name |-> "Project"] @@ NoArgs :
            p \in ParaNames}
    \cup {[cmd |-> "file-email", yes |-> y, answer |-> a, copy |-> c,
           folder_name |-> fd[1], max_depth |-> fd[2]] @@ NoArgs :
            y \in BOOLEAN, a \in Answers, c \in BOOLEAN, fd \in FileTargets}
    \cup {[cmd |-> "archive-folder", yes |-> y, dry_run |-> dr, answer |-> a,
           folder_name |-> f] @@ NoArgs :
            y \in BOOLEAN, dr \in BOOLEAN, a \in Answers,
            f \in {"Team Management", "Project", "NonExistent"}}

\* The locals of main() that the steps hand on.
MainLocals ==
    [op |-> "main", pc |-> "load", host |-> <<>>, api_token |-> <<>>,
     failed |-> FALSE, prompted |-> FALSE, confirmed |-> FALSE,
     found |-> NotFound, archive_id |-> None, parent_id |-> None,
     again |-> FALSE, first |-> NotFound, first_list |-> <<>>]

\* sys.exit(code), or main() returning (code 0) or ending in an exception
\* nobody catches (code 1).
Ends(c) == [c EXCEPT !.pc = "exit"]

InitMain ==
    /\ mailboxes \in MainLists
    /\ find = Idle
    /\ connected = FALSE
    /\ email \in {[exists |-> FALSE, mailboxIds |-> {}],
                  [exists |-> TRUE, mailboxIds |-> {1}]}
    /\ call = IdleCall
    /\ sent = <<>>
    /\ outcome = NoOutcome
    /\ env \in MainEnvs

\* main() of every command up to the connection: parse_args and the loader.
\* The read-only commands let load_jmap_credentials end the process; the
\* others catch the loader's ValueError, print it and sys.exit(1).
Start(c) ==
    LET creds == IF c.cmd \in ReadOnlyCommands
                 THEN LoadJmapCredentials(env)
                 ELSE LoadJmapCredentialsRw(env)
    IN  IF creds.kind = "return"
        THEN /\ call' = [c EXCEPT !.pc = "connect",
                                  !.host = creds.value.host,
                                  !.api_token = creds.value.api_token]
             /\ outcome' = NoOutcome
        ELSE /\ call' = Ends(c)
             /\ outcome' = Exit(1)

MainLoad ==
    /\ call.op = "idle"
    /\ \E line \in CommandLines : Start(line @@ MainLocals)
    /\ UNCHANGED <<env, mailboxes, find, connected, email, sent>>

\* The same archive-folder command line run once more after a run that
\* archived the folder: a new process, a new client, the same environment.
MainAgain ==
    /\ call.op = "main" /\ call.cmd = "archive-folder"
    /\ call.pc = "exit" /\ outcome = Exit(0)
    /\ \E i \in 1..Len(sent) : sent[i] = "Mailbox/set"
    /\ ~call.again
    /\ Start([again |-> TRUE, first |-> call.found,
              first_list |-> Reparent(mailboxes, call.found.id, call.found.parentId)]
             @@ MainLocals @@ call)
    /\ connected' = FALSE
    /\ sent' = <<>>
    /\ UNCHANGED <<env, mailboxes, find, email>>

\* JMAPClient(host, api_token) and client.connect(): the session request;
\* connect() itself prints a failure and calls sys.exit(1).
MainConnect ==
    /\ call.op = "main" /\ call.pc = "connect"
    /\ sent' = Append(sent, "Session")
    /\ \E ok \in BOOLEAN :
          IF ok
          THEN /\ connected' = TRUE
               /\ call' = [call EXCEPT !.pc = "run"]
               /\ UNCHANGED outcome
          ELSE /\ connected' = FALSE
               /\ call' = [Ends(call) EXCEPT !.failed = TRUE]
               /\ outcome' = Exit(1)
    /\ UNCHANGED <<env, mailboxes, find, email>>

\* What client.request(MailboxGet) of get_mailboxes may do: raise, answer
\* with something that is not a MailboxGetResponse, or answer with the list.
Replies == {"raise", "other", "list"}

\* get_mailboxes(): the list of the response, [] for another response (a
\* raise ends the process inside get_mailboxes).
MailboxesFrom(reply) == IF reply = "list" THEN mailboxes ELSE <<>>

\* The process ends with the given exit code after issuing reqs.
MainEnd(c, reqs, code) ==
    /\ sent' = sent \o reqs
    /\ call' = Ends(c)
    /\ outcome' = Exit(code)

\* A remote call of the command raised.
Failing(c) == [c EXCEPT !.failed = TRUE]

\* list-folders after connecting: get_mailboxes() and the display.
ListFoldersMain ==
    /\ call.op = "main" /\ call.pc = "run" /\ call.cmd = "list-folders"
    /\ \E r \in Replies :
          IF r = "raise" THEN MainEnd(Failing(call), <<"Mailbox/get">>, 1)
          ELSE MainEnd(call, <<"Mailbox/get">>, 0)
    /\ UNCHANGED <<env, mailboxes, find, connected, email>>

\* client.get_emails(mailbox_id, limit) and display_emails, ending main().
GetEmailsEnd(reqs) ==
    \E fails \in BOOLEAN :
        IF fails THEN MainEnd(Failing(call), reqs \o <<"Email/query">>, 1)
        ELSE MainEnd(call, reqs \o <<"Email/query">>, 0)

\* list-emails after connecting: the folder by name, else by role, then its
\* emails; a folder that is not found is reported and main() returns.
ListEmailsMain ==
    /\ call.op = "main" /\ call.pc = "run" /\ call.cmd = "list-emails"
    /\ \E r1 \in Replies :
          IF r1 = "raise" THEN MainEnd(Failing(call), <<"Mailbox/get">>, 1)
          ELSE IF Lookup(MailboxesFrom(r1), call.folder_name).id # None
          THEN GetEmailsEnd(<<"Mailbox/get">>)
          ELSE IF RoleMap(call.folder_name) = "None"
          THEN MainEnd(call, <<"Mailbox/get">>, 0)
          ELSE \E r2 \in Replies :
                  IF r2 = "raise"
                  THEN MainEnd(Failing(call), <<"Mailbox/get", "Mailbox/get">>, 1)
                  ELSE IF LookupRole(MailboxesFrom(r2), RoleMap(call.folder_name)).id
                             # None
                  THEN GetEmailsEnd(<<"Mailbox/get", "Mailbox/get">>)
                  ELSE MainEnd(call, <<"Mailbox/get", "Mailbox/get">>, 0)
    /\ UNCHANGED <<env, mailboxes, find, connected, email>>

\* get-email after connecting: get_email_by_id prints an exception of the
\* request and returns None, as it does for an email the server does not
\* have; main() then reports "not found" and returns.
GetEmailMain ==
    /\ call.op = "main" /\ call.pc = "run" /\ call.cmd = "get-email"
    /\ \E fails \in BOOLEAN :
          IF fails THEN MainEnd(Failing(call), <<"Email/get">>, 0)
          ELSE MainEnd(call, <<"Email/get">>, 0)
    /\ UNCHANGED <<env, mailboxes, find, connected, email>>

\* The exit code main() gives for what an operation returned or raised
\* (except ValueError: print, sys.exit(1)).
ExitOf(o) == IF o.kind = "return" THEN 0 ELSE 1

\* create-folder after connecting: the parent by name, then create_folder.
CreateFolderMain ==
    /\ call.op = "main" /\ call.pc = "run" /\ call.cmd = "create-folder"
    /\ \E r \in Replies :
          LET parent == Lookup(MailboxesFrom(r), call.parent)
              newId == Len(mailboxes) + 1
          IN  IF r = "raise"
              THEN /\ MainEnd(Failing(call), <<"Mailbox/get">>, 1)
                   /\ UNCHANGED mailboxes
              ELSE IF parent.id = None
              THEN /\ MainEnd(call, <<"Mailbox/get">>, 1)
                   /\ UNCHANGED mailboxes
              ELSE \E resp \in CreateResponses(newId), applied \in BOOLEAN :
                      /\ resp.raises \/ ServerMay(applied, CreateKey \in DOMAIN resp.created,
                                                  CreateKey \in DOMAIN resp.not_created)
                      /\ mailboxes' = IF applied
                                      THEN Append(mailboxes,
                                                  Mailbox(newId, call.name, parent.id))
                                      ELSE mailboxes
                      /\ MainEnd([call EXCEPT !.parent_id = parent.id,
                                              !.failed = resp.raises],
                                 <<"Mailbox/get", "Mailbox/set">>,
                                 ExitOf(InterpretCreate(resp, parent.id, call.name)))
    /\ UNCHANGED <<env, find, connected, email>>

\* A test of the resolver's result that lets everything pass.
NothingFoundIgnored(res) == FALSE

\* if not target_folder: ... sys.exit(1) (file-email), if not
\* folder_to_archive: ... sys.exit(1) (archive-folder); a RecursionError has
\* ended the process before.
NothingFound(res) == res.kind # "found"

\* n requests of the same kind.
Repeat(req, n) == [i \in 1..n |-> req]

\* file-email after connecting, up to the prompt: get_email_info, a
\* get_mailboxes for the name of each current folder of the email, then
\* find_folder_in_para with its own get_mailboxes.  A RecursionError of the
\* resolver is caught nowhere and ends the process with a traceback.
FileEmailMainResolve ==
    /\ call.op = "main" /\ call.pc = "run" /\ call.cmd = "file-email"
    /\ LET n == Cardinality(email.mailboxIds)
           shown == <<"Email/get">> \o Repeat("Mailbox/get", n)
       IN  \/ MainEnd(Failing(call), <<"Email/get">>, 1)
           \/ /\ ~email.exists
              /\ MainEnd(call, <<"Email/get">>, 1)
           \/ /\ email.exists
              /\ \E k \in 1..n :
                    MainEnd(Failing(call),
                            <<"Email/get">> \o Repeat("Mailbox/get", k), 1)
           \/ /\ email.exists
              /\ \E r \in Replies :
                    LET res == FileFind(MailboxesFrom(r), call.folder_name,
                                        call.max_depth)
                    IN  IF r = "raise"
                        THEN MainEnd(Failing(call), shown \o <<"Mailbox/get">>, 1)
                        ELSE IF NothingFound(res)
                        THEN MainEnd(call, shown \o <<"Mailbox/get">>, 1)
                        ELSE /\ sent' = sent \o shown \o <<"Mailbox/get">>
                             /\ call' = [call EXCEPT !.pc = "confirm", !.found = res]
                             /\ UNCHANGED outcome
    /\ UNCHANGED <<env, mailboxes, find, connected, email>>

\* A --dry-run that is not looked at.
DryRunIgnored(dry_run) == FALSE

\* if args.dry_run: ... sys.exit(0)
DryRunExits(dry_run) == dry_run

\* archive-folder after connecting, up to the prompt: the archive folder by
\* name, find_folder_in_para, and the --dry-run exit.
ArchiveFolderMainResolve ==
    /\ call.op = "main" /\ call.pc = "run" /\ call.cmd = "archive-folder"
    /\ \E r1 \in Replies :
          LET archive_folder == Lookup(MailboxesFrom(r1), "400_archives")
          IN  IF r1 = "raise" THEN MainEnd(Failing(call), <<"Mailbox/get">>, 1)
              ELSE IF archive_folder.id = None
              THEN MainEnd(call, <<"Mailbox/get">>, 1)
              ELSE \E r2 \in Replies :
                      LET res == ArchiveFind(MailboxesFrom(r2), call.folder_name)
                          c == [call EXCEPT !.archive_id = archive_folder.id,
                                            !.found = res]
                          reqs == <<"Mailbox/get", "Mailbox/get">>
                      IN  IF r2 = "raise" THEN MainEnd(Failing(c), reqs, 1)
                          ELSE IF NothingFound(res) THEN MainEnd(c, reqs, 1)
                          ELSE IF DryRunExits(call.dry_run) THEN MainEnd(c, reqs, 0)
                          ELSE /\ sent' = sent \o reqs
                               /\ call' = [c EXCEPT !.pc = "confirm"]
                               /\ UNCHANGED outcome
    /\ UNCHANGED <<env, mailboxes, find, connected, email>>

\* An answer test that takes everything but n for a yes.
ConfirmsUnlessNo(answer) == Lower(answer) # "n"

\* response.lower() in ('y', 'yes')
Confirms(answer) == Lower(answer) \in {"y", "yes"}

\* The confirmation of file-email and archive-folder: --yes skips the prompt;
\* otherwise input(), whose EOFError nobody catches, and the answer test.
MainConfirm ==
    /\ call.op = "main" /\ call.pc = "confirm"
    /\ IF call.yes
       THEN /\ call' = [call EXCEPT !.pc = "mutate", !.confirmed = TRUE]
            /\ UNCHANGED <<sent, outcome>>
       ELSE LET c == [call EXCEPT !.prompted = TRUE]
            IN  IF call.answer = EOF THEN MainEnd(c, <<>>, 1)
                ELSE IF Confirms(call.answer)
                THEN /\ call' = [c EXCEPT !.pc = "mutate", !.confirmed = TRUE]
                     /\ UNCHANGED <<sent, outcome>>
                ELSE MainEnd(c, <<>>, 0)
    /\ UNCHANGED <<env, mailboxes, find, connected, email>>

\* file-email after the confirmation: file_email(client, email_id,
\* target_id, copy) and the exit code for what it returned or raised.
FileEmailMainMutate ==
    /\ call.op = "main" /\ call.pc = "mutate" /\ call.cmd = "file-email"
    /\ LET target == call.found.id
           reads == IF call.copy THEN <<"Email/get">> ELSE <<>>
           ids == IF call.copy THEN CopyIds(email.mailboxIds, target)
                  ELSE MoveIds(target)
       IN  \/ /\ call.copy
              /\ MainEnd(Failing(call), reads, 1)
              /\ UNCHANGED email
           \/ /\ call.copy /\ ~email.exists
              /\ MainEnd(call, reads, 1)
              /\ UNCHANGED email
           \/ /\ call.copy => email.exists
              /\ \E resp \in UpdateResponses({EmailId, OtherEmailId}),
                    applied \in BOOLEAN :
                    /\ applied => email.exists
                    /\ resp.raises \/ ServerMay(applied, EmailId \in resp.updated,
                                                EmailId \in DOMAIN resp.not_updated)
                    /\ email' = IF applied THEN [email EXCEPT !.mailboxIds = ids]
                                ELSE email
                    /\ MainEnd([call EXCEPT !.failed = resp.raises],
                               reads \o <<"Email/set">>,
                               ExitOf(InterpretFile(resp, EmailId)))
    /\ UNCHANGED <<env, mailboxes, find, connected>>

\* archive-folder after the confirmation: move_folder_to_archive(client,
\* folder_id, archive_id) and the exit code.
ArchiveFolderMainMutate ==
    /\ call.op = "main" /\ call.pc = "mutate" /\ call.cmd = "archive-folder"
    /\ LET folder_id == call.found.id
       IN  \E resp \in UpdateResponses({folder_id, call.archive_id}),
              applied \in BOOLEAN :
              /\ resp.raises \/ ServerMay(applied, folder_id \in resp.updated,
                                          folder_id \in DOMAIN resp.not_updated)
              /\ mailboxes' = IF applied
                              THEN Reparent(mailboxes, folder_id, call.archive_id)
                              ELSE mailboxes
              /\ MainEnd([call EXCEPT !.failed = resp.raises], <<"Mailbox/set">>,
                         ExitOf(InterpretMove(resp, folder_id)))
    /\ UNCHANGED <<env, find, connected, email>>

NextMain ==
    \/ MainLoad
    \/ MainConnect
    \/ ListFoldersMain
    \/ ListEmailsMain
    \/ GetEmailMain
    \/ CreateFolderMain
    \/ FileEmailMainResolve
    \/ ArchiveFolderMainResolve
    \/ MainConfirm
    \/ FileEmailMainMutate
    \/ ArchiveFolderMainMutate
    \/ MainAgain

SpecMain == InitMain /\ [][NextMain]_vars

\* ------------------------------------------- the client's read operations

\* A get_mailboxes without its connection test.
GetMailboxesUnchecked ==
    /\ call.op = "idle"
    /\ call' = [op |-> "get_mailboxes", pc |-> "done"]
    /\ sent' = Append(sent, "Mailbox/get")
    /\ \E r \in Replies :
          outcome' = IF r = "raise" THEN Exit(1) ELSE Returned(MailboxesFrom(r))
    /\ UNCHANGED <<env, mailboxes, find, connected, email>>

\* client.get_mailboxes(): the connection test, one Mailbox/get; an
\* exception of the request is printed and ends the process.
GetMailboxes ==
    /\ call.op = "idle"
    /\ call' = [op |-> "get_mailboxes", pc |-> "done"]
    /\ IF ~connected
       THEN /\ outcome' = NotConnected
            /\ UNCHANGED sent
       ELSE /\ sent' = Append(sent, "Mailbox/get")
            /\ \E r \in Replies :
                  outcome' = IF r = "raise" THEN Exit(1)
                             ELSE Returned(MailboxesFrom(r))
    /\ UNCHANGED <<env, mailboxes, find, connected, email>>

\* The emails a read gives back: the one email, if the server has it.
EmailList == IF email.exists THEN <<[id |-> EmailId, mailboxIds |-> email.mailboxIds]>>
             ELSE <<>>

\* client.get_emails(mailbox_id, limit): the connection test, one
\* Email/query with its Email/get; an exception ends the process.
GetEmails ==
    /\ call.op = "idle"
    /\ call' = [op |-> "get_emails", pc |-> "done"]
    /\ IF ~connected
       THEN /\ outcome' = NotConnected
            /\ UNCHANGED sent
       ELSE /\ sent' = Append(sent, "Email/query")
            /\ \E fails \in BOOLEAN :
                  outcome' = IF fails THEN Exit(1) ELSE Returned(EmailList)
    /\ UNCHANGED <<env, mailboxes, find, connected, email>>

\* get_email_info(client, email_id) called by itself: the connection test,
\* one Email/get; None without data, ValueError for an exception.
GetEmailInfo ==
    /\ call.op = "idle"
    /\ call' = [op |-> "get_email_info", pc |-> "done"]
    /\ IF ~connected
       THEN /\ outcome' = NotConnected
            /\ UNCHANGED sent
       ELSE /\ sent' = Append(sent, "Email/get")
            /\ \E fails \in BOOLEAN :
                  outcome' = IF fails
                             THEN Raised("ValueError",
                                         <<"Error retrieving email", "request failed">>,
                                         EmptyDetail)
                             ELSE Returned(EmailList)
    /\ UNCHANGED <<env, mailboxes, find, connected, email>>

\* get_email_by_id(client, email_id): the connection test, one Email/get;
\* None without data and None for an exception, which it prints.
GetEmailById ==
    /\ call.op = "idle"
    /\ call' = [op |-> "get_email_by_id", pc |-> "done"]
    /\ IF ~connected
       THEN /\ outcome' = NotConnected
            /\ UNCHANGED sent
       ELSE /\ sent' = Append(sent, "Email/get")
            /\ \E fails \in BOOLEAN :
                  outcome' = IF fails THEN Returned(<<>>) ELSE Returned(EmailList)
    /\ UNCHANGED <<env, mailboxes, find, connected, email>>

\* client.get_mailbox_by_name(name) called once a create_folder has ended
\* (the lookup of the round trip): get_mailboxes and the search of its list.
GetMailboxByName ==
    /\ call.op = "create_folder" /\ call.pc = "done"
    /\ find.op = "idle"
    /\ \E name \in CreateNames :
          IF ~connected
          THEN /\ find' = [op |-> "get_mailbox_by_name", name |-> name,
                           reply |-> "none", result |-> NotConnected]
               /\ UNCHANGED sent
          ELSE /\ sent' = Append(sent, "Mailbox/get")
               /\ \E r \in Replies :
                     find' = [op |-> "get_mailbox_by_name", name |-> name,
                              reply |-> r,
                              result |-> IF r = "raise" THEN Exit(1)
                                         ELSE Returned(Lookup(MailboxesFrom(r), name))]
    /\ UNCHANGED <<env, mailboxes, connected, email, call, outcome>>

Next ==
    \/ Connect
    \/ FileEmailBegin
    \/ FileEmailRead
    \/ OtherWriter
    \/ FileEmailWrite
    \/ MoveFolderToArchive
    \/ CreateFolder
    \/ GetMailboxes
    \/ GetEmails
    \/ GetEmailInfo
    \/ GetEmailById
    \/ GetMailboxByName

Spec == Init /\ [][Next]_vars

\* ------------------------------------------------- the loaders, called

\* The pieces JMAP_HOST values are put together from: the two schemes, parts
\* of them, and other characters.
Fragments ==
    {Https, Http, <<"a">>, <<"h">>, <<"t", "t", "p", ":", "/", "/">>,
     <<"s", ":", "/", "/">>}

RECURSIVE Flatten(_)
Flatten(parts) == IF parts = <<>> THEN <<>> ELSE Head(parts) \o Flatten(Tail(parts))

\* s contains a URL scheme the loaders know.
HasScheme(s) == Contains(s, Https) \/ Contains(s, Http)

InitLoad ==
    /\ mailboxes = SampleMailboxes
    /\ find = Idle
    /\ connected = FALSE
    /\ email = [exists |-> FALSE, mailboxIds |-> {}]
    /\ call = IdleCall
    /\ sent = <<>>
    /\ outcome = NoOutcome
    /\ \E n \in 0..MaxParts :
          \E parts \in [1..n -> Fragments] :
              env = [JMAP_HOST |-> Flatten(parts), JMAP_API_TOKEN |-> TokenPlain,
                     JMAP_API_TOKEN_RO |-> TokenRO, JMAP_API_TOKEN_RW |-> TokenRW]

\* load_jmap_credentials()
LoadCredentials ==
    /\ call.op = "idle"
    /\ call' = [op |-> "load_jmap_credentials", pc |-> "done"]
    /\ outcome' = LoadJmapCredentials(env)
    /\ UNCHANGED <<env, mailboxes, find, connected, email, sent>>

\* load_jmap_credentials_rw()
LoadCredentialsRw ==
    /\ call.op = "idle"
    /\ call' = [op |-> "load_jmap_credentials_rw", pc |-> "done"]
    /\ outcome' = LoadJmapCredentialsRw(env)
    /\ UNCHANGED <<env, mailboxes, find, connected, email, sent>>

NextLoad == LoadCredentials \/ LoadCredentialsRw

SpecLoad == InitLoad /\ [][NextLoad]_vars

\* ------------------------------------------------- reading a folder list

\* The folder with the given id (ids are the positions of the list).
ById(mbs, id) == mbs[id]

\* The id reached from a folder by following parentId k times (None once a
\* root-level folder is passed).
RECURSIVE Up(_, _, _)
Up(mbs, id, k) ==
    IF k = 0 \/ id = None THEN id ELSE Up(mbs, ById(mbs, id).parentId, k - 1)

\* The id of the last folder in the list with the given name, or None.
LastNamed(mbs, nm) ==
    LET S == {i \in 1..Len(mbs) : mbs[i].name = nm}
    IN  IF S = {} THEN None ELSE mbs[CHOOSE i \in S : \A j \in S : j <= i].id

\* The folders named nm that lie d levels below the folder anc, 1 <= d <= depth.
MatchesBelow(mbs, nm, anc, depth) ==
    {x \in 1..Len(mbs) :
        mbs[x].name = nm /\ \E d \in 1..depth : Up(mbs, mbs[x].id, d) = anc}

\* Folders that are immediate children of a folder with a PARA name.
ParaChildren(mbs) ==
    {c \in 1..Len(mbs) :
        \E p \in 1..Len(mbs) :
            mbs[p].name \in ParaNames /\ mbs[c].parentId = mbs[p].id}

\* Each PARA name is carried by at most one folder.
UniqueParaNames(mbs) ==
    \A i, j \in 1..Len(mbs) :
        (mbs[i].name \in ParaNames /\ mbs[i].name = mbs[j].name) => i = j

\* ------------------------------------------------------------ claims C1-C4

\* C1 as stated: the bounded-depth resolver, called with the name of an
\* immediate child c of any folder p that carries a PARA name, returns c
\* annotated with p's name and id.
C1_AsStated ==
    find.op = "archive" =>
        \A p, c \in 1..Len(mailboxes) :
            ( /\ mailboxes[p].name \in ParaNames
              /\ mailboxes[c].parentId = mailboxes[p].id
              /\ mailboxes[c].name = find.folder_name )
            => find.result = Found(mailboxes[c], mailboxes[p].name, mailboxes[p].id)

\* C1 (amended): the bounded-depth resolver never raises; it returns None when
\* no immediate child of a PARA-named folder carries the name (so for a name
\* found only two or more levels down); what it returns is an immediate child
\* of a PARA-named folder, carrying the name, annotated with that folder's
\* name and id; and when each PARA name is carried by one folder and exactly
\* one of their immediate children carries the name, it returns that child.
C1_ImmediateChild ==
    find.op = "archive" =>
        LET r == find.result
            kids == {c \in ParaChildren(mailboxes) :
                        mailboxes[c].name = find.folder_name}
        IN  /\ r.kind \in {"None", "found"}
            /\ kids = {} => r = NotFound
            /\ r.kind = "found" =>
                  /\ r.id \in {mailboxes[c].id : c \in kids}
                  /\ r.paraParentId = r.parentId
                  /\ r.paraParent \in ParaNames
                  /\ ById(mailboxes, r.paraParentId).name = r.paraParent
            /\ (UniqueParaNames(mailboxes) /\ Cardinality(kids) = 1) =>
                  \A c \in kids :
                      LET p == ById(mailboxes, mailboxes[c].parentId)
                      IN  r = Found(mailboxes[c], p.name, p.id)

\* C1 witness: on the nested list of the test the immediate child is found.
C1_Witness ==
    /\ mailboxes = NestedMailboxes
    /\ find.op = "archive"
    /\ find.folder_name = "Project"
    /\ find.result = Found(NestedMailboxes[2], "100_projects", 1)

\* A chain root -> a -> b -> c of the list, root carrying a PARA name.
IsChain(mbs, root, a, b, c) ==
    /\ mbs[root].name \in ParaNames
    /\ mbs[a].parentId = mbs[root].id
    /\ mbs[b].parentId = mbs[a].id
    /\ mbs[c].parentId = mbs[b].id

C3_Terminates ==
    find.op = "file" => find.result.kind \in {"None", "found"}

\* The order in which C4 says the PARA roots are tried.
RootOrder == <<"100_projects", "200_areas", "300_resources">>

\* How far below a root the resolver looks: max_depth, or (unlimited) as far
\* as the list is long.
Reach(mbs, max_depth) == IF max_depth.limited THEN max_depth.n ELSE Len(mbs)

\* Folder x, d levels below the folder root, is the first match of a pre-order
\* walk below root that looks reach levels down: on the path from root to x,
\* no folder above x carries the name, and no child listed before the path's
\* folder at any level carries the name or has a match within the remaining
\* levels below it.
FirstInPreorder(mbs, nm, root, x, d, reach) ==
    /\ Up(mbs, mbs[x].id, d) = root
    /\ mbs[x].name = nm
    /\ \A j \in 1..d :
          LET on == Up(mbs, mbs[x].id, d - j)      \* the path's folder at level j
              above == Up(mbs, mbs[x].id, d - j + 1)
          IN  /\ j < d => ById(mbs, on).name # nm
              /\ \A u \in 1..Len(mbs) :
                    (mbs[u].parentId = above /\ u < on) =>
                        /\ mbs[u].name # nm
                        /\ MatchesBelow(mbs, nm, mbs[u].id, reach - j) = {}

\* C4: when the depth-limited resolver returns a folder, it is the first
\* match of the pre-order walk (children in list order, a child before its
\* subtree, a subtree before the next sibling) below the first root, in the
\* order 100_projects, 200_areas, 300_resources, that has a match within
\* reach; when it returns None no root has a match within reach.
C4_FirstMatch ==
    find.op = "file" =>
        LET r == find.result
            reach == Reach(mailboxes, find.max_depth)
            rootId(k) == LastNamed(mailboxes, RootOrder[k])
            has(k) == /\ rootId(k) # None
                      /\ MatchesBelow(mailboxes, find.folder_name, rootId(k), reach) # {}
        IN  /\ r.kind = "None" => \A k \in 1..3 : ~has(k)
            /\ r.kind = "found" =>
                  \E k \in 1..3 :
                      /\ has(k)
                      /\ \A k2 \in 1..(k - 1) : ~has(k2)
                      /\ r.paraParent = RootOrder[k]
                      /\ r.paraParentId = rootId(k)
                      /\ \E d \in 1..reach :
                            FirstInPreorder(mailboxes, find.folder_name, rootId(k),
                                            r.id, d, reach)

\* C4 witness: the resolver returns a match two levels down, under the
\* earlier child s of a root-level PARA root, although a later child y of
\* that root carries the name too.
C4_Witness ==
    /\ find.op = "file"
    /\ find.result.kind = "found"
    /\ ById(mailboxes, find.result.paraParentId).parentId = None
    /\ \E s, y \in 1..Len(mailboxes) :
          /\ mailboxes[s].id = find.result.parentId
          /\ mailboxes[s].parentId = find.result.paraParentId
          /\ mailboxes[y].parentId = find.result.paraParentId
          /\ mailboxes[y].name = find.folder_name
          /\ s < y

\* ----------------------------------------------------------- claims C5-C10

\* A call of op that has issued its write request and read the response.
Answered(op) == call.op = op /\ call.pc = "done" /\ "resp" \in DOMAIN call

Count(q, x) == Cardinality({i \in 1..Len(q) : q[i] = x})

\* C5: a file_email with copy=False issues no Email/get at all, so none
\* before its Email/set; a file_email with copy=True issues its Email/get
\* first (a call on a connected client has issued it once it is past its
\* first step), exactly once, and its Email/set, if it comes to one, after it.
C5_ReadBeforeWrite ==
    call.op = "file_email" =>
        /\ ~call.copy => Count(sent, "Email/get") = 0
        /\ (~call.copy /\ Count(sent, "Email/set") > 0) => sent = <<"Email/set">>
        /\ (call.copy /\ Count(sent, "Email/set") > 0)
              => sent = <<"Email/get", "Email/set">>
        /\ (call.copy /\ connected /\ call.pc \in {"write", "done"})
              => (sent # <<>> /\ sent[1] = "Email/get"
                  /\ Count(sent, "Email/get") = 1)

\* C5 witness: a copy that has read and then written.
C5_Witness ==
    /\ Answered("file_email")
    /\ call.copy
    /\ sent = <<"Email/get", "Email/set">>

\* C6: after a successful move (copy=False) to Z the email's mailboxIds are
\* exactly {Z}, whatever they were.
C6_MoveReplaces ==
    (Answered("file_email") /\ ~call.copy /\ outcome = Returned(TRUE))
        => email.mailboxIds = {call.target}

\* C6 witness: an email in two folders moved to a third.
C6_Witness ==
    /\ Answered("file_email") /\ ~call.copy /\ outcome = Returned(TRUE)
    /\ Cardinality(call.before) = 2
    /\ call.target \notin call.before
    /\ email.mailboxIds = {call.target}

\* C7: after a successful copy to Z of an email that was in the folders M,
\* with no other writer between the read and the write, the mailboxIds are
\* M with Z added; they are M itself when Z was in M.
C7_CopyAdds ==
    (Answered("file_email") /\ call.copy /\ ~call.interfered
     /\ outcome = Returned(TRUE))
        => /\ email.mailboxIds = call.before \cup {call.target}
           /\ call.target \in call.before => email.mailboxIds = call.before

\* C7 witness: an email in one folder copied to another.
C7_Witness ==
    /\ Answered("file_email") /\ call.copy /\ ~call.interfered
    /\ outcome = Returned(TRUE)
    /\ Cardinality(call.before) = 1
    /\ call.target \notin call.before
    /\ Cardinality(email.mailboxIds) = 2

\* The id an update call sent, and the messages of its two errors.
SentId == IF call.op = "file_email" THEN call.email_id ELSE call.folder_id

IsUpdateCall ==
    /\ (Answered("file_email") \/ Answered("move_folder_to_archive"))
    /\ ~call.resp.raises

FailedMsg == {"Failed to move folder", "Failed to file email", "Failed to create folder"}

UnexpectedMsg ==
    {"Folder move response did not contain expected data",
     "Email filing response did not contain expected data",
     "Folder creation response did not contain expected data"}

IsRejection(o) == o.kind = "raise" /\ Len(o.msg) = 2 /\ o.msg[2] \in FailedMsg

IsUnexpected(o) == o.kind = "raise" /\ Len(o.msg) = 2 /\ o.msg[2] \in UnexpectedMsg

C9_CreateOutcome ==
    (Answered("create_folder") /\ ~call.resp.raises) =>
        LET refused == DOMAIN call.resp.not_created # {}
            made == CreateKey \in DOMAIN call.resp.created
        IN  /\ refused
                  => (IsRejection(outcome)
                      /\ outcome.detail = Get(call.resp.not_created, CreateKey))
            /\ (~refused /\ made)
                  => /\ outcome = Returned([id |-> call.resp.created[CreateKey],
                                            name |-> call.folder_name,
                                            parentId |-> call.parent_id])
                     /\ \E i \in 1..Len(mailboxes) :
                           mailboxes[i] = Mailbox(outcome.value.id, call.folder_name,
                                                  call.parent_id)
            /\ (~refused /\ DOMAIN call.resp.created = {}) => IsUnexpected(outcome)

\* C9 witness: a create answered with a created entry, and a not_created
\* entry for another creation id, raises the creation failure.
C9_Witness ==
    /\ Answered("create_folder")
    /\ ~call.resp.raises
    /\ CreateKey \in DOMAIN call.resp.created
    /\ DOMAIN call.resp.not_created # {}
    /\ IsRejection(outcome)

\* What the operation of the call raises for a response that only refuses
\* the change.
RejectionOf(c) ==
    CASE c.op = "file_email" ->
            InterpretFile([raises |-> FALSE, updated |-> {},
                           not_updated |-> [k \in {c.email_id} |-> "forbidden"]],
                          c.email_id)
      [] c.op = "move_folder_to_archive" ->
            InterpretMove([raises |-> FALSE, updated |-> {},
                           not_updated |-> [k \in {c.folder_id} |-> "forbidden"]],
                          c.folder_id)
      [] c.op = "create_folder" ->
            InterpretCreate([raises |-> FALSE, created |-> [k \in {} |-> 0],
                             not_created |-> [k \in {CreateKey} |-> "forbidden"]],
                            c.parent_id, c.folder_name)

\* C10 as stated: the error raised for an unexpected response shape is of
\* another kind (exception type) than the error the same operation raises for
\* a rejection.
C10_DistinctKinds ==
    ( /\ call.pc = "done" /\ "resp" \in DOMAIN call
      /\ IsUnexpected(outcome) )
        => outcome.type # RejectionOf(call).type

\* ---------------------------------------------------------- claims C11-C20

\* The requests issued so far that change something on the server.
Mutations == {i \in 1..Len(sent) : sent[i] \in MutationRequests}

Prompting == call.op = "main" /\ call.cmd \in {"file-email", "archive-folder"}

\* C11: in file-email and archive-folder run without --yes, an answer at the
\* prompt that is not y or yes in any letter case ends the command with exit
\* code 0 and no mutation request issued; a mutation request is issued only
\* after such an answer or with --yes.
C11_CancelIsSafe ==
    Prompting =>
        /\ (call.prompted /\ call.answer # EOF
            /\ Lower(call.answer) \notin {"y", "yes"})
              => (call.pc = "exit" /\ outcome = Exit(0) /\ Mutations = {})
        /\ Mutations # {}
              => (call.yes
                  \/ (call.prompted /\ Lower(call.answer) \in {"y", "yes"}))
        /\ call.prompted => ~call.yes

\* C11 witness: archive-folder asked, was answered n, and ended with code 0
\* having issued the session and the two folder listings only.
C11_Witness ==
    /\ Prompting /\ call.cmd = "archive-folder"
    /\ call.prompted /\ call.answer = "n"
    /\ call.pc = "exit" /\ outcome = Exit(0)
    /\ sent = <<"Session", "Mailbox/get", "Mailbox/get">>

\* C12: archive-folder with --dry-run never issues a Mailbox/set, with or
\* without --yes and whatever would be typed at the prompt; once the archive
\* folder and the folder to archive are found it has ended with exit code 0
\* and has not prompted.
C12_DryRunIsSafe ==
    (call.op = "main" /\ call.cmd = "archive-folder" /\ call.dry_run) =>
        /\ Mutations = {}
        /\ ~call.prompted
        /\ (call.archive_id # None /\ call.found.kind = "found")
              => (call.pc = "exit" /\ outcome = Exit(0))

\* C12 witness: a dry run with --yes that found both folders.
C12_Witness ==
    /\ call.op = "main" /\ call.cmd = "archive-folder"
    /\ call.dry_run /\ call.yes
    /\ call.archive_id # None /\ call.found.kind = "found"
    /\ call.pc = "exit" /\ outcome = Exit(0)
    /\ sent = <<"Session", "Mailbox/get", "Mailbox/get">>

\* C13 as stated: in every command a remote call that failed has ended the
\* process with exit code 1.
C13_FailureExitsOne ==
    (call.op = "main" /\ call.failed) => (call.pc = "exit" /\ outcome = Exit(1))

\* The token variable the loader of the command reads.
RequiredToken(cmd) ==
    IF cmd \in ReadOnlyCommands THEN env.JMAP_API_TOKEN ELSE env.JMAP_API_TOKEN_RW

C15_TokenScopes ==
    (call.op = "main" /\ ~Falsy(env.JMAP_HOST)) =>
        /\ (call.cmd \in ReadOnlyCommands /\ ~Falsy(env.JMAP_API_TOKEN_RO))
              => call.api_token = env.JMAP_API_TOKEN_RO
        /\ (call.cmd \in MutatingCommands /\ ~Falsy(env.JMAP_API_TOKEN_RW))
              => call.api_token = env.JMAP_API_TOKEN_RW

\* The rest of s behind its first n characters.
Behind(s, n) == SubSeq(s, n + 1, Len(s))

\* C16: for a hostname h without a URL scheme, each loader started with
\* JMAP_HOST = h, 'https://' + h or 'http://' + h returns the host h.
C16_SchemeStripped ==
    (call.op \in {"load_jmap_credentials", "load_jmap_credentials_rw"}
     /\ outcome.kind = "return") =>
        \A p \in {<<>>, Https, Http} :
            (StartsWith(env.JMAP_HOST, p)
             /\ ~HasScheme(Behind(env.JMAP_HOST, Len(p))))
                => outcome.value.host = Behind(env.JMAP_HOST, Len(p))

\* C16 witness: load_jmap_credentials_rw given 'http://' + h, h not empty and
\* with a part of a scheme in it, returned h.
C16_Witness ==
    /\ call.op = "load_jmap_credentials_rw"
    /\ outcome.kind = "return"
    /\ StartsWith(env.JMAP_HOST, Http)
    /\ ~HasScheme(Behind(env.JMAP_HOST, Len(Http)))
    /\ Contains(Behind(env.JMAP_HOST, Len(Http)), <<"t", "t", "p", ":", "/", "/">>)
    /\ outcome.value.host = Behind(env.JMAP_HOST, Len(Http))

\* The operations of the client and on the client.
ClientOps ==
    {"get_mailboxes", "get_emails", "get_email_info", "get_email_by_id",
     "create_folder", "move_folder_to_archive", "file_email"}

\* C17: every client operation called on a client whose connect() has not
\* succeeded has raised the 'Client not connected' error and has issued no
\* request.
C17_NotConnected ==
    (call.op \in ClientOps /\ ~connected)
        => (call.pc = "done" /\ outcome = NotConnected /\ sent = <<>>)

\* C17 witness: get_emails was called on a client that is not connected.
C17_Witness ==
    /\ call.op = "get_emails"
    /\ ~connected
    /\ outcome = NotConnected
    /\ sent = <<>>

\* C18 as stated: the folder archive-folder takes for the destination is
\* named exactly 400_archives, and the folder create-folder takes for the
\* parent is named exactly as --parent says.
C18_ExactParaNames ==
    call.op = "main" =>
        /\ (call.cmd = "archive-folder" /\ call.archive_id # None)
              => ById(mailboxes, call.archive_id).name = "400_archives"
        /\ (call.cmd = "create-folder" /\ call.parent_id # None)
              => ById(mailboxes, call.parent_id).name = call.parent

\* Folder id lies below a root-level folder with a PARA name.
BelowParaRoot(mbs, id) ==
    \E k \in 1..Len(mbs) :
        LET a == Up(mbs, id, k)
        IN  /\ a # None
            /\ ById(mbs, a).parentId = None
            /\ ById(mbs, a).name \in ParaNames

\* C19 as stated: a folder returned by either resolver lies below a
\* root-level folder named 100_projects, 200_areas or 300_resources, and the
\* folder the result names as its PARA parent is root-level.
C19_RootAnchors ==
    (find.op # "idle" /\ find.result.kind = "found") =>
        /\ BelowParaRoot(mailboxes, find.result.id)
        /\ ById(mailboxes, find.result.paraParentId).parentId = None

\* C20: a lookup by the name N, answered with the server's folder list after
\* a create_folder(P, N) that returned, on a server where no folder but the
\* created one has the name N in any letter case, returns a folder whose
\* parentId is P.
C20_CreateThenLookup ==
    ( /\ call.op = "create_folder" /\ outcome.kind = "return"
      /\ find.op = "get_mailbox_by_name" /\ find.name = call.folder_name
      /\ find.reply = "list"
      /\ \A i \in 1..Len(mailboxes) :
            mailboxes[i].id # outcome.value.id
                => Lower(mailboxes[i].name) # Lower(call.folder_name) )
        => ( /\ find.result.kind = "return"
             /\ find.result.value.id # None
             /\ find.result.value.parentId = call.parent_id )

\* C20 witness: Project created under 200_areas and looked up.
C20_Witness ==
    /\ call.op = "create_folder" /\ outcome.kind = "return"
    /\ call.folder_name = "Project" /\ call.parent_id = 5
    /\ find.op = "get_mailbox_by_name" /\ find.name = "Project"
    /\ find.reply = "list"
    /\ find.result = Returned(Mailbox(outcome.value.id, "Project", 5))

\* ------------------------------------------------ the display of list-folders

\* The folders of a displayed list carry the names below, by position, and a
\* sortOrder each.
DisplayNames == <<"Inbox", "inbox", "100_projects", "A", "B", "C">>

SortOrders == {10, 20}

SampleSortOrders == <<10, 20, 100, 10, 200, 10, 300, 400>>

\* The folder list of the test suite with its sortOrder values.
SampleDisplayed ==
    [i \in 1..Len(SampleMailboxes) |->
        SampleMailboxes[i] @@ [sortOrder |-> SampleSortOrders[i]]]

\* No cycle among n folders with the parents par: from every folder a
\* root-level folder, or a parentId no folder has, is reached along parentId.
RECURSIVE Rooted(_, _, _)
Rooted(par, i, k) ==
    IF i \notin DOMAIN par THEN TRUE
    ELSE IF k = 0 THEN FALSE
    ELSE Rooted(par, par[i], k - 1)

\* mbs is a forest of up to max folders; a parentId of n + 1 is the id of no
\* folder (an orphan).
IsDisplayList(mbs, max) ==
    \E n \in 0..max :
        \E par \in [1..n -> 0..(n + 1)], so \in [1..n -> SortOrders] :
            /\ \A i \in 1..n : Rooted(par, i, n)
            /\ mbs = [i \in 1..n |->
                         Mailbox(i, DisplayNames[i], par[i]) @@ [sortOrder |-> so[i]]]

\* args.start when --start is not given.
NoStart == ""

StartArgs == {NoStart, "INBOX", "100_projects", "NonExistent"}

\* build_folder_tree(mailboxes)[key], or [] for a key it has not: the folders
\* whose parentId is the key, in list order; a falsy parentId is the key 'root'.
BuildFolderTree(mbs, key) == SelectSeq(mbs, LAMBDA m : m.parentId = key)

\* sorted(children, key=lambda x: x.get('sortOrder', 999)): ascending and
\* stable, equal sortOrders keep their list order.
RECURSIVE InsertSorted(_, _)
InsertSorted(q, m) ==
    IF q = <<>> THEN <<m>>
    ELSE IF q[Len(q)].sortOrder <= m.sortOrder THEN Append(q, m)
    ELSE Append(InsertSorted(SubSeq(q, 1, Len(q) - 1), m), q[Len(q)])

RECURSIVE Sorted(_)
Sorted(q) ==
    IF q = <<>> THEN <<>>
    ELSE InsertSorted(Sorted(SubSeq(q, 1, Len(q) - 1)), q[Len(q)])

\* A depth test that lets one more level through.
DisplayPastDepthStrict(max_depth, current_depth) ==
    max_depth.limited /\ current_depth > max_depth.n

\* if max_depth is not None and current_depth >= max_depth: return
DisplayPastDepth(max_depth, current_depth) ==
    max_depth.limited /\ current_depth >= max_depth.n

\* display_folder(mailbox, children_map, depth, max_depth, current_depth):
\* the folders printed, in order, each with its indentation depth.
\* DisplayEach is a for loop over sorted folders from position i on.
RECURSIVE DisplayFolder(_, _, _, _, _)
RECURSIVE DisplayEach(_, _, _, _, _, _)
DisplayFolder(mailbox, mbs, depth, max_depth, current_depth) ==
    IF DisplayPastDepth(max_depth, current_depth) THEN <<>>
    ELSE <<[id |-> mailbox.id, depth |-> depth]>>
         \o DisplayEach(Sorted(BuildFolderTree(mbs, mailbox.id)), 1, mbs,
                        depth + 1, max_depth, current_depth + 1)

DisplayEach(q, i, mbs, depth, max_depth, current_depth) ==
    IF i > Len(q) THEN <<>>
    ELSE DisplayFolder(q[i], mbs, depth, max_depth, current_depth)
         \o DisplayEach(q, i + 1, mbs, depth, max_depth, current_depth)

\* The positions of the folders whose lowered name is the lowered --start.
StartMatches(mbs, start_folder) ==
    {i \in 1..Len(mbs) : Lower(mbs[i].name) = Lower(start_folder)}

\* display_folders(mailboxes, start_folder, max_depth): nothing for an empty
\* list; with --start the first folder of that name in any case, or the
\* not-found message; without it the root-level folders by sortOrder.
DisplayFoldersOut(mbs, start_folder, max_depth) ==
    IF mbs = <<>> THEN [shown |-> <<>>, not_found |-> FALSE]
    ELSE IF start_folder # NoStart
    THEN LET S == StartMatches(mbs, start_folder)
         IN  IF S = {} THEN [shown |-> <<>>, not_found |-> TRUE]
             ELSE LET first == CHOOSE i \in S : \A j \in S : i <= j
                  IN  [shown |-> DisplayFolder(mbs[first], mbs, 0, max_depth, 0),
                       not_found |-> FALSE]
    ELSE [shown |-> DisplayEach(Sorted(BuildFolderTree(mbs, None)), 1, mbs,
                                0, max_depth, 0),
          not_found |-> FALSE]

InitDisplay ==
    /\ \/ IsDisplayList(mailboxes, MaxFolders)
       \/ mailboxes = SampleDisplayed
    /\ find = Idle
    /\ connected = TRUE
    /\ email = [exists |-> FALSE, mailboxIds |-> {}]
    /\ call = IdleCall
    /\ sent = <<>>
    /\ outcome = NoOutcome
    /\ env = MockEnv

\* list-folders once get_mailboxes() has returned:
\* display_folders(mailboxes, args.start, args.max_depth).
DisplayFolders ==
    /\ call.op = "idle"
    /\ \E start_folder \in StartArgs, max_depth \in DepthArgs :
          /\ call' = [op |-> "display_folders", pc |-> "done",
                      start_folder |-> start_folder, max_depth |-> max_depth]
          /\ outcome' = Returned(DisplayFoldersOut(mailboxes, start_folder, max_depth))
    /\ UNCHANGED <<env, mailboxes, find, connected, email, sent>>

NextDisplay == DisplayFolders

SpecDisplay == InitDisplay /\ [][NextDisplay]_vars

\* ---------------------------------------------------------- claims C21-C30

\* An archive-folder run that was confirmed and ended with exit code 0.
Archived ==
    /\ call.op = "main" /\ call.cmd = "archive-folder"
    /\ call.pc = "exit" /\ outcome = Exit(0) /\ Mutations # {}

\* C21 as stated: after a successful confirmed archive-folder the folder the
\* resolver returned has for parentId the id of the folder named
\* 400_archives, and the paraParent reported is the name of the folder it was
\* an immediate child of before.
C21_MovedUnderArchives ==
    Archived =>
        /\ \E i \in 1..Len(mailboxes) : mailboxes[i].name = "400_archives"
        /\ \A i \in 1..Len(mailboxes) :
              mailboxes[i].name = "400_archives"
                  => ById(mailboxes, call.found.id).parentId = mailboxes[i].id
        /\ call.found.paraParent \in ParaNames
        /\ call.found.parentId = call.found.paraParentId
        /\ ById(mailboxes, call.found.paraParentId).name = call.found.paraParent

\* C22: in file-email and archive-folder the mutation request comes last
\* and only after the lookups found what they looked for: file-email has
\* ended with exit code 1 and no update when the email or the target folder
\* was not found, archive-folder when 400_archives or the folder to archive
\* was not found.
C22_LookupsFirst ==
    (Prompting /\ call.pc \notin {"connect", "run"}) =>
        LET missing ==
                \/ call.found.kind # "found"
                \/ call.cmd = "file-email" /\ ~email.exists
                \/ call.cmd = "archive-folder" /\ call.archive_id = None
        IN  /\ missing => (call.pc = "exit" /\ outcome = Exit(1) /\ Mutations = {})
            /\ Mutations # {} => (~missing /\ Mutations = {Len(sent)})

\* C22 witness: file-email read the email, then did not find the target
\* folder, and ended with exit code 1 without an update.
C22_Witness ==
    /\ Prompting /\ call.cmd = "file-email"
    /\ email.exists /\ ~call.failed
    /\ call.found.kind # "found"
    /\ call.pc = "exit" /\ outcome = Exit(1)
    /\ sent = <<"Session", "Email/get", "Mailbox/get", "Mailbox/get">>

\* C23: a copy reads and then writes with nothing between them held: when
\* another client changes the email's mailboxIds after the read, the copy's
\* successful write leaves exactly what was read with the target added, so
\* the other client's change is overwritten; a move never stands between a
\* read and a write, it issues its single Email/set and nothing before it.
C23_CopyOverwrites ==
    /\ (Answered("file_email") /\ call.copy /\ outcome = Returned(TRUE))
          => email.mailboxIds = call.before \cup {call.target}
    /\ (call.op = "file_email" /\ ~call.copy)
          => /\ ~(call.pc = "write" /\ sent # <<>>)
             /\ call.pc = "done" => sent \in {<<>>, <<"Email/set">>}

\* C23 witness: a copy succeeded after another client had put the email in a
\* folder that is neither the target nor one of those read; the email is not
\* in that folder any more.
C23_Witness ==
    /\ Answered("file_email") /\ call.copy /\ outcome = Returned(TRUE)
    /\ call.interfered
    /\ \E z \in call.other : z \notin call.before \cup {call.target}
    /\ \E z \in call.other : z \notin email.mailboxIds

\* The create and update requests sent.
Writes == Count(sent, "Mailbox/set") + Count(sent, "Email/set")

\* The call stopped in get_email_info: no email, or the Email/get failed.
ReadFailed ==
    /\ outcome.kind = "raise" /\ Len(outcome.msg) >= 2
    /\ outcome.msg[2] \in {"Email not found", "Error retrieving email"}

\* C24: create_folder, move_folder_to_archive and file_email send at most
\* one create/update request per call; a finished call has sent exactly one
\* unless the client was not connected or the copy form read no email, and
\* then it has sent none.
C24_OneWrite ==
    call.op \in {"create_folder", "move_folder_to_archive", "file_email"} =>
        /\ Writes <= 1
        /\ call.pc = "done" =>
              /\ ~connected => (outcome = NotConnected /\ Writes = 0)
              /\ (call.op = "file_email" /\ call.copy /\ ~email.exists) => Writes = 0
              /\ Writes = IF outcome = NotConnected \/ ReadFailed THEN 0 ELSE 1

\* C24 witness: a move_folder_to_archive whose request raised has sent it
\* once.
C24_Witness ==
    /\ Answered("move_folder_to_archive")
    /\ call.resp.raises
    /\ outcome.kind = "raise"
    /\ Writes = 1

\* C25: on every folder list, malformed ones included, and for every name,
\* file-email's resolver called with max_depth=1 gives what archive-folder's
\* resolver gives: the same folder with the same paraParent and
\* paraParentId, or None when the other gives None (and it never ends in a
\* RecursionError).
C25_DepthOneIsBounded ==
    /\ find.op = "archive"
          => find.result = FileFind(mailboxes, find.folder_name, Limited(1))
    /\ (find.op = "file" /\ find.max_depth = Limited(1))
          => /\ find.result = ArchiveFind(mailboxes, find.folder_name)
             /\ find.result.kind \in {"found", "None"}

\* C25 witness: file-email's resolver with max_depth=1 found an immediate
\* child of a PARA root where the unlimited search gives a deeper folder.
C25_Witness ==
    /\ find.op = "file" /\ find.max_depth = Limited(1)
    /\ find.result.kind = "found"
    /\ find.result.parentId = find.result.paraParentId
    /\ FileFind(mailboxes, find.folder_name, Unlimited).kind = "found"
    /\ FileFind(mailboxes, find.folder_name, Unlimited) # find.result

\* Folder d lies below folder a: a is reached from d along parentId.
Descendant(mbs, d, a) == \E k \in 1..Len(mbs) : Up(mbs, d, k) = a

\* C26: a successful move_folder_to_archive has changed the parentId of the
\* folder it names, to the archive id it was given, and nothing else: every
\* other folder's parentId and every folder's name and id are as before, so
\* each former descendant of the moved folder is still its descendant and is
\* a descendant of the archive folder.
C26_OnlyParentChanges ==
    (Answered("move_folder_to_archive") /\ outcome = Returned(TRUE)) =>
        /\ Len(mailboxes) = Len(ServerMailboxes)
        /\ \A i \in 1..Len(mailboxes) :
              /\ mailboxes[i].id = ServerMailboxes[i].id
              /\ mailboxes[i].name = ServerMailboxes[i].name
              /\ mailboxes[i].parentId =
                    IF mailboxes[i].id = call.folder_id
                    THEN call.archive_parent_id
                    ELSE ServerMailboxes[i].parentId
        /\ \A d \in 1..Len(mailboxes) :
              Descendant(ServerMailboxes, d, call.folder_id)
                  => /\ Descendant(mailboxes, d, call.folder_id)
                     /\ Descendant(mailboxes, d, call.archive_parent_id)

\* C26 witness: a folder with a child was moved under another folder, and
\* the child, its parentId untouched, lies below that folder now.
C26_Witness ==
    /\ Answered("move_folder_to_archive") /\ outcome = Returned(TRUE)
    /\ call.folder_id # call.archive_parent_id
    /\ ServerMailboxes[call.folder_id].parentId # call.archive_parent_id
    /\ \E d \in 1..Len(mailboxes) :
          /\ ServerMailboxes[d].parentId = call.folder_id
          /\ mailboxes[d].parentId = call.folder_id
          /\ ~Descendant(ServerMailboxes, d, call.archive_parent_id)
          /\ Descendant(mailboxes, d, call.archive_parent_id)

\* The output of a list-folders that had something to start from.
Displayed == call.op = "display_folders" /\ ~outcome.value.not_found

Shown == outcome.value.shown

\* The folders the display starts from: the root-level folders, or the first
\* folder carrying the --start name in any case.
StartIds ==
    IF call.start_folder = NoStart
    THEN {i \in 1..Len(mailboxes) : mailboxes[i].parentId = None}
    ELSE {i \in StartMatches(mailboxes, call.start_folder) :
             \A j \in StartMatches(mailboxes, call.start_folder) : i <= j}

\* The folder k parentId steps above folder id, or -1 above a root-level
\* folder or an orphan.
RECURSIVE AncestorAt(_, _, _)
AncestorAt(mbs, id, k) ==
    IF k = 0 THEN id
    ELSE IF id \notin 1..Len(mbs) THEN -1
    ELSE AncestorAt(mbs, mbs[id].parentId, k - 1)

\* Folder f is at distance k from a start.
DistanceIs(f, k) == AncestorAt(mailboxes, f, k) \in StartIds

\* C27: list-folders shows exactly the folders at a distance below
\* --max-depth from the start (the root-level folders, or the --start
\* folder, at distance 0), every folder reachable from the start when no
\* --max-depth is given; each once, indented by its distance, after its
\* parent, and siblings in ascending sortOrder.
C27_ShownWithinDepth ==
    Displayed =>
        /\ {Shown[j].id : j \in 1..Len(Shown)} =
              {f \in 1..Len(mailboxes) :
                  \E k \in 0..Len(mailboxes) :
                      /\ DistanceIs(f, k)
                      /\ call.max_depth.limited => k < call.max_depth.n}
        /\ \A i, j \in 1..Len(Shown) : Shown[i].id = Shown[j].id => i = j
        /\ \A j \in 1..Len(Shown) : DistanceIs(Shown[j].id, Shown[j].depth)
        /\ \A j \in 1..Len(Shown) :
              Shown[j].depth > 0
                  => \E i \in 1..(j - 1) :
                        Shown[i].id = mailboxes[Shown[j].id].parentId
        /\ \A i, j \in 1..Len(Shown) :
              (/\ i < j
               /\ Shown[i].depth = Shown[j].depth
               /\ mailboxes[Shown[i].id].parentId = mailboxes[Shown[j].id].parentId)
                  => mailboxes[Shown[i].id].sortOrder <= mailboxes[Shown[j].id].sortOrder

\* C27 witness: --max-depth 2 showed a root-level folder and its child and
\* left the child's child out.
C27_Witness ==
    /\ Displayed /\ call.start_folder = NoStart
    /\ call.max_depth = Limited(2)
    /\ \E j \in 1..Len(Shown) : Shown[j].depth = 1
    /\ \E f \in 1..Len(mailboxes) :
          /\ DistanceIs(f, 2)
          /\ \A j \in 1..Len(Shown) : Shown[j].id # f

\* An archive-folder run that has sent its Mailbox/set.
ArchiveSent ==
    /\ call.op = "main" /\ call.cmd = "archive-folder" /\ Mutations # {}

\* The folder list an archive-folder run read: the server's, with the parentId
\* of the folder it moved as it was.
ListRead(found) ==
    IF found.kind = "found" THEN Reparent(mailboxes, found.id, found.parentId)
    ELSE mailboxes

\* C28 as stated: the folder archive-folder sends to move_folder_to_archive
\* is neither the archive folder itself nor an ancestor of it, on any list.
C28_ForestKept ==
    ArchiveSent =>
        /\ call.found.id # call.archive_id
        /\ ~Descendant(ListRead(call.found), call.archive_id, call.found.id)

\* A second run of the same archive-folder command line.
SecondRun == call.op = "main" /\ call.again

\* The tree of the first run had its folders named 400_archives at root
\* level, and but for the folder archived no folder of that name directly
\* under a folder with a PARA name.
OnlyOneToArchive ==
    LET before == call.first_list
    IN  /\ \E i \in 1..Len(before) : before[i].name = "400_archives"
        /\ \A i \in 1..Len(before) :
              /\ before[i].name = "400_archives" => before[i].parentId = None
              /\ (before[i].name = call.folder_name /\ before[i].id # call.first.id)
                     => \A q \in 1..Len(before) :
                           before[q].name \in ParaNames
                               => before[i].parentId # before[q].id

\* C29: after an archive-folder F that succeeded, on a tree with 400_archives
\* at root level and no other folder F directly under a PARA folder, a second
\* archive-folder F finds nothing, ends with exit code 1 and sends no update.
C29_NotRepeatable ==
    (SecondRun /\ OnlyOneToArchive) =>
        /\ Mutations = {}
        /\ call.pc \notin {"connect", "run"}
              => /\ call.pc = "exit" /\ outcome = Exit(1)
                 /\ call.found.kind = "None"

\* C29 witness: the second run looked the folder up on the list the server
\* answered with, did not find it, and ended with exit code 1.
C29_Witness ==
    /\ SecondRun /\ OnlyOneToArchive
    /\ call.pc = "exit" /\ outcome = Exit(1)
    /\ ~call.failed
    /\ call.archive_id # None
    /\ ById(mailboxes, call.first.id).parentId = call.archive_id
    /\ call.found.kind = "None"
    /\ sent = <<"Session", "Mailbox/get", "Mailbox/get">>

\* A create-folder run that created its folder.
Created ==
    /\ call.op = "main" /\ call.cmd = "create-folder"
    /\ call.pc = "exit" /\ outcome = Exit(0) /\ Mutations # {}

\* C30 as stated: when the list had a folder named P and none named N, the
\* bounded-depth resolver called with N after a successful create-folder
\* gives the new folder, with paraParent P and paraParentId the parent id
\* create-folder used.
C30_CreatedIsFound ==
    (/\ Created
     /\ \E i \in 1..(Len(mailboxes) - 1) : mailboxes[i].name = call.parent
     /\ \A i \in 1..(Len(mailboxes) - 1) : mailboxes[i].name # call.name)
        => ArchiveFind(mailboxes, call.name) =
              Found(Mailbox(Len(mailboxes), call.name, call.parent_id),
                    call.parent, call.parent_id)

====
